---- MODULE Spec2Model ----
(***************************************************************************)
(* Model of SD23067_Lab3.py: the rule engine (OPERATORS, rule_matches,     *)
(* evaluate_applicant), the canonical rule base DEFAULT_RULES_JSON and the *)
(* part of main() that parses the rule text and decides whether the engine *)
(* is called.                                                              *)
(*                                                                         *)
(* Values are the Python objects json.loads can produce.  Every value is a *)
(* record [t, n, s]: t is the Python type, n the number (held in tenths,   *)
(* so 3.7 is 37 and 8000 is 80000; a bool counts as the number 0 or 1, as  *)
(* Python's bool does), s the text of a str.  "absent" is not a value: it  *)
(* marks a key that a dict does not have.                                  *)
(***************************************************************************)
EXTENDS Integers, Sequences, FiniteSets, TLC

VARIABLES
    facts,          \* evaluate_applicant's argument facts
    rules,          \* evaluate_applicant's argument rules
    pc,             \* where the program is
    i,              \* position of "for rule in rules"
    matched_rules,  \* the local list matched_rules, as positions in rules
    best_rule,      \* the local best_rule, as a position in rules (0: unset)
    result,         \* the dict evaluate_applicant returned, or NoResult
    exc,            \* the exception that left evaluate_applicant, or "none"
    probe,          \* caller: the inputs whose outcome is compared
    memo,           \* caller: outcome of the first completed call on probe
    rules_json,     \* main: the text in the rule editor
    applicant_facts,\* main: the dict built from the input widgets
    rules_valid,    \* main: the local rules_valid
    button,         \* main: st.button(...) of the current script run
    st_errors,      \* main: the st.error messages of the current script run
    called,         \* main: evaluate_applicant was called in this script run
    shown           \* main: the decision result rendered in this script run

vars == <<facts, rules, pc, i, matched_rules, best_rule, result, exc, probe, memo,
          rules_json, applicant_facts, rules_valid, button, st_errors, called, shown>>

mainVars == <<rules_json, applicant_facts, rules_valid, button, st_errors, called, shown>>

(***************************************************************************)
(* Python values                                                           *)
(***************************************************************************)
Num(x) == [t |-> "num", n |-> x, s |-> ""]
Bool(b) == [t |-> "bool", n |-> IF b THEN 10 ELSE 0, s |-> ""]
Str(x) == [t |-> "str", n |-> 0, s |-> x]
Null == [t |-> "null", n |-> 0, s |-> ""]
EmptyList == [t |-> "list", n |-> 0, s |-> ""]
Absent == [t |-> "absent", n |-> 0, s |-> ""]

IsNumeric(v) == v.t \in {"num", "bool"}
Hashable(v) == v.t # "list"

\* The strings that are compared by order, in Python's (code point) order.
StrOrder == <<"", "3.7", "<", "high", "low">>
StrRank(x) == IF \E k \in 1..Len(StrOrder) : StrOrder[k] = x
              THEN CHOOSE k \in 1..Len(StrOrder) : StrOrder[k] = x
              ELSE 0

\* -1, 0, 1 as a sorts before, equal to, after b; only for two values of
\* one comparable kind.
Cmp3(a, b) ==
    LET x == IF a.t = "str" THEN StrRank(a.s) ELSE a.n
        y == IF b.t = "str" THEN StrRank(b.s) ELSE b.n
    IN  IF x < y THEN -1 ELSE IF x > y THEN 1 ELSE 0

SameKind(a, b) ==
    \/ IsNumeric(a) /\ IsNumeric(b)
    \/ a.t = b.t /\ a.t \in {"str", "null", "list"}

\* Python's a == b: never raises, False across kinds.
PyEq(a, b) ==
    /\ SameKind(a, b)
    /\ IF IsNumeric(a) THEN a.n = b.n ELSE a.s = b.s

\* Python's ordering comparisons raise TypeError across kinds and on None.
Orderable(a, b) == SameKind(a, b) /\ a.t # "null"

OPERATORS == {">=", "<=", ">", "<", "=="}

\* op_func(actual_value, expected_value): "true", "false" or "TypeError".
ApplyOp(op, a, b) ==
    IF op = "==" THEN (IF PyEq(a, b) THEN "true" ELSE "false")
    ELSE IF ~Orderable(a, b) THEN "TypeError"
    ELSE LET c == Cmp3(a, b)
             holds == CASE op = ">=" -> c >= 0
                        [] op = "<=" -> c <= 0
                        [] op = ">"  -> c > 0
                        [] op = "<"  -> c < 0
         IN  IF holds THEN "true" ELSE "false"

(***************************************************************************)
(* rule_matches                                                            *)
(*                                                                         *)
(* A condition, and the value under "conditions", is [t, items]: t its     *)
(* Python type and items what iterating it yields (the elements of a list, *)
(* the characters of a str); a number, bool or None has no len() and       *)
(* cannot be iterated.                                                     *)
(***************************************************************************)
Sized(c) == c.t \in {"list", "str"}

\* One pass of the loop body for cond: "pass" (go on to the next
\* condition), "false" (return False) or "TypeError".
CheckCond(cond, f) ==
    IF ~Sized(cond) THEN "TypeError"
    ELSE IF Len(cond.items) # 3 THEN "false"
    ELSE LET field == cond.items[1]
             op_str == cond.items[2]
             expected_value == cond.items[3]
         IN  IF ~Hashable(field) THEN "TypeError"
             ELSE IF ~(field.t = "str" /\ field.s \in DOMAIN f) THEN "false"
             ELSE IF ~Hashable(op_str) THEN "TypeError"
             ELSE IF ~(op_str.t = "str" /\ op_str.s \in OPERATORS) THEN "false"
             ELSE LET r == ApplyOp(op_str.s, f[field.s], expected_value)
                  IN  IF r = "true" THEN "pass" ELSE "false"

\* Faulty variant of CondsFrom: the rule matches as soon as one condition passes.
RECURSIVE CondsFromAny(_, _, _)
CondsFromAny(conds, k, f) ==
    IF k > Len(conds) THEN (IF Len(conds) = 0 THEN "true" ELSE "false")
    ELSE LET r == CheckCond(conds[k], f)
         IN  IF r = "pass" THEN "true"
             ELSE IF r = "false" THEN CondsFromAny(conds, k + 1, f) ELSE r

RECURSIVE CondsFrom(_, _, _)
CondsFrom(conds, k, f) ==
    IF k > Len(conds) THEN "true"
    ELSE LET r == CheckCond(conds[k], f)
         IN  IF r = "pass" THEN CondsFrom(conds, k + 1, f) ELSE r

\* rule.get("conditions", [])
GetConditions(rule) ==
    IF rule.conditions.t = "absent" THEN [t |-> "list", items |-> <<>>]
    ELSE rule.conditions

\* "true", "false", or the exception raised: "TypeError", or
\* "AttributeError" when the element of rules is not a dict (no .get).
rule_matches(rule, f) ==
    IF rule.t # "dict" THEN "AttributeError"
    ELSE LET conditions == GetConditions(rule)
         IN  IF ~Sized(conditions) THEN "TypeError"
             ELSE CondsFrom(conditions.items, 1, f)

(***************************************************************************)
(* evaluate_applicant                                                      *)
(*                                                                         *)
(* A rule is [t, name, priority, conditions, action]; t is "dict" for a    *)
(* rule object.  action is [t, decision, reason].  A missing key holds     *)
(* Absent (conditions and action: t = "absent").                           *)
(***************************************************************************)
NoResult == [decision |-> Absent, reason |-> Absent,
             matched_rules |-> <<>>, selected_rule |-> Absent]

\* d.get(key, default) for the value v stored under key
Get(v, default) == IF v.t = "absent" THEN default ELSE v

\* key=lambda r: r.get("priority", 0)
PriorityKey(rule) == Get(rule.priority, Num(0))

\* max(matched_rules, key=...): the first item is the candidate; a later item
\* replaces it only when its key compares greater.  Yields the position in
\* rs of the chosen rule, or 0 when a comparison raises TypeError.
\* Faulty variant of MaxScan: a later item replaces the candidate also when its key
\* is equal (the last maximum wins).
RECURSIVE MaxScanLast(_, _, _, _)
MaxScanLast(rs, m, k, best) ==
    IF k > Len(m) THEN best
    ELSE LET r == ApplyOp(">=", PriorityKey(rs[m[k]]), PriorityKey(rs[best]))
         IN  IF r = "TypeError" THEN 0
             ELSE MaxScanLast(rs, m, k + 1, IF r = "true" THEN m[k] ELSE best)

RECURSIVE MaxScan(_, _, _, _)
MaxScan(rs, m, k, best) ==
    IF k > Len(m) THEN best
    ELSE LET r == ApplyOp(">", PriorityKey(rs[m[k]]), PriorityKey(rs[best]))
         IN  IF r = "TypeError" THEN 0
             ELSE MaxScan(rs, m, k + 1, IF r = "true" THEN m[k] ELSE best)

\* Faulty variant of BestRule: min() where max() is meant.
RECURSIVE MinScan(_, _, _, _)
MinScan(rs, m, k, best) ==
    IF k > Len(m) THEN best
    ELSE LET r == ApplyOp("<", PriorityKey(rs[m[k]]), PriorityKey(rs[best]))
         IN  IF r = "TypeError" THEN 0
             ELSE MinScan(rs, m, k + 1, IF r = "true" THEN m[k] ELSE best)
BestRuleMin(rs, m) == MinScan(rs, m, 2, m[1])

BestRule(rs, m) == MaxScan(rs, m, 2, m[1])

RuleName(rule) == Get(rule.name, Str("Unnamed rule"))

\* [r.get("name", "Unnamed rule") for r in matched_rules]
MatchedNames(rs, m) == [k \in 1..Len(m) |-> RuleName(rs[m[k]])]

\* lines 121-126
NoMatchResult ==
    [decision |-> Str("REVIEW"),
     reason |-> Str("No rules matched for this applicant. Rules may need review."),
     matched_rules |-> <<>>,
     selected_rule |-> Null]

\* Faulty variant of BuildResult: the action is taken from the first matched rule.
BuildResultFirst(rs, m, b) ==
    [decision |-> Get(rs[m[1]].action.decision, Str("REVIEW")),
     reason |-> Get(rs[m[1]].action.reason, Str("")),
     matched_rules |-> MatchedNames(rs, m),
     selected_rule |-> RuleName(rs[b])]

\* lines 132-137, for the dict action of rule rs[b]
BuildResult(rs, m, b) ==
    [decision |-> Get(rs[b].action.decision, Str("REVIEW")),
     reason |-> Get(rs[b].action.reason, Str("")),
     matched_rules |-> MatchedNames(rs, m),
     selected_rule |-> RuleName(rs[b])]

\* best_rule.get("action", {}) followed by action.get(...): only a dict
\* (or the default {}) has .get
ActionHasGet(rule) == rule.action.t \in {"absent", "dict"}

\* Faulty variant of Collect: the match is put at the front of the list.
CollectFront(m, k) == <<k>> \o m

\* line 118
Collect(m, k) == Append(m, k)

\* Faulty variant of Enter: the loop position survives from the previous call.
EnterStaleCursor(f, rs) ==
    /\ facts' = f
    /\ rules' = rs
    /\ matched_rules' = <<>>
    /\ best_rule' = 0
    /\ i' = i
    /\ result' = NoResult
    /\ exc' = "none"
    /\ pc' = "loop"

\* line 114 and the entry into the loop of line 116
Enter(f, rs) ==
    /\ facts' = f
    /\ rules' = rs
    /\ matched_rules' = <<>>
    /\ best_rule' = 0
    /\ i' = 1
    /\ result' = NoResult
    /\ exc' = "none"
    /\ pc' = "loop"

\* lines 116-118: one iteration of "for rule in rules"
LoopIter ==
    /\ pc = "loop"
    /\ i <= Len(rules)
    /\ LET r == rule_matches(rules[i], facts)
       IN  IF r \in {"true", "false"}
           THEN /\ matched_rules' =
                      IF r = "true" THEN Collect(matched_rules, i) ELSE matched_rules
                /\ i' = i + 1
                /\ UNCHANGED <<pc, exc>>
           ELSE /\ pc' = "raised"
                /\ exc' = r
                /\ UNCHANGED <<i, matched_rules>>
    /\ UNCHANGED <<facts, rules, best_rule, result, probe, memo, mainVars>>

\* lines 120-126
NoMatch ==
    /\ pc = "loop"
    /\ i > Len(rules)
    /\ matched_rules = <<>>
    /\ result' = NoMatchResult
    /\ pc' = "done"
    /\ UNCHANGED <<facts, rules, i, matched_rules, best_rule, exc, probe, memo,
                   mainVars>>

\* lines 128-137
Resolve ==
    /\ pc = "loop"
    /\ i > Len(rules)
    /\ matched_rules # <<>>
    /\ LET b == BestRule(rules, matched_rules)
       IN  /\ best_rule' = b
           /\ IF b = 0
              THEN pc' = "raised" /\ exc' = "TypeError" /\ UNCHANGED result
              ELSE IF ~ActionHasGet(rules[b])
              THEN pc' = "raised" /\ exc' = "AttributeError" /\ UNCHANGED result
              ELSE pc' = "done" /\ result' = BuildResult(rules, matched_rules, b)
                                /\ UNCHANGED exc
    /\ UNCHANGED <<facts, rules, i, matched_rules, probe, memo, mainVars>>

(***************************************************************************)
(* DEFAULT_RULES_JSON as json.loads reads it.  The en dash in the name of   *)
(* the fourth rule is written "-": a TLA+ string holds ASCII only.         *)
(***************************************************************************)
Cond(field, op, expected) ==
    [t |-> "list", items |-> <<Str(field), Str(op), expected>>]
CondList(cs) == [t |-> "list", items |-> cs]
Action(decision, reason) ==
    [t |-> "dict", decision |-> decision, reason |-> reason]
NoAction == [t |-> "absent", decision |-> Absent, reason |-> Absent]
NoConditions == [t |-> "absent", items |-> <<>>]
RuleObj(name, priority, conditions, action) ==
    [t |-> "dict", name |-> name, priority |-> priority,
     conditions |-> conditions, action |-> action]

DEFAULT_RULES ==
    << RuleObj(Str("Top merit candidate"), Num(1000),
               CondList(<< Cond("cgpa", ">=", Num(37)),
                           Cond("co_curricular_score", ">=", Num(800)),
                           Cond("family_income", "<=", Num(80000)),
                           Cond("disciplinary_actions", "==", Num(0)) >>),
               Action(Str("AWARD_FULL"),
                      Str("Excellent academic & co-curricular performance, with acceptable need"))),
       RuleObj(Str("Good candidate - partial scholarship"), Num(800),
               CondList(<< Cond("cgpa", ">=", Num(33)),
                           Cond("co_curricular_score", ">=", Num(600)),
                           Cond("family_income", "<=", Num(120000)),
                           Cond("disciplinary_actions", "<=", Num(10)) >>),
               Action(Str("AWARD_PARTIAL"),
                      Str("Good academic & involvement record with moderate need"))),
       RuleObj(Str("Need-based review"), Num(700),
               CondList(<< Cond("cgpa", ">=", Num(25)),
                           Cond("family_income", "<=", Num(40000)) >>),
               Action(Str("REVIEW"),
                      Str("High need but borderline academic score"))),
       RuleObj(Str("Low CGPA - not eligible"), Num(950),
               CondList(<< Cond("cgpa", "<", Num(25)) >>),
               Action(Str("REJECT"),
                      Str("CGPA below minimum scholarship requirement"))),
       RuleObj(Str("Serious disciplinary record"), Num(900),
               CondList(<< Cond("disciplinary_actions", ">=", Num(20)) >>),
               Action(Str("REJECT"),
                      Str("Too many disciplinary records"))) >>

(***************************************************************************)
(* The inputs the engine is run on                                         *)
(***************************************************************************)
MaxRules == 2

FieldNames == {"cgpa", "co_curricular_score", "family_income",
               "disciplinary_actions"}

\* The facts dict holding the given values; a field given as Absent is not
\* a key of it.
MkFacts(cgpa, co, income, disc) ==
    LET pick(k) == CASE k = "cgpa" -> cgpa
                     [] k = "co_curricular_score" -> co
                     [] k = "family_income" -> income
                     [] k = "disciplinary_actions" -> disc
    IN  [k \in {x \in FieldNames : pick(x) # Absent} |-> pick(k)]

FactsUniverse ==
    { MkFacts(c, Absent, Absent, d) :
        c \in {Absent, Num(36), Num(37), Num(38), Str("3.7")},
        d \in {Absent, Num(30)} }

NumberCond == [t |-> "num", items |-> <<>>]
AnAction == Action(Str("AWARD"), Str("because"))

ConditionRules ==
    { RuleObj(Str("A"), Num(50), c, AnAction) :
        c \in { CondList(<<Cond("cgpa", ">=", Num(37))>>),
                CondList(<<Cond("cgpa", "<", Num(37))>>),
                CondList(<<Cond("cgpa", "!=", Num(37))>>),
                CondList(<<[t |-> "list", items |-> <<Str("cgpa"), Str(">=")>>]>>),
                CondList(<<NumberCond>>),
                CondList(<<[t |-> "list",
                            items |-> <<EmptyList, Str(">="), Num(37)>>]>>),
                CondList(<<[t |-> "list",
                            items |-> <<Str("cgpa"), EmptyList, Num(37)>>]>>),
                CondList(<<Cond("cgpa", ">=", Str("3.7"))>>),
                CondList(<<Cond("cgpa", "<", Num(37)), NumberCond>>),
                [t |-> "num", items |-> <<>>] } }
        \cup
    { RuleObj(Str("D"), Num(90),
              CondList(<<Cond("disciplinary_actions", ">=", Num(20))>>),
              AnAction) }

PriorityRules ==
    { RuleObj(Str("B"), Absent, CondList(<<>>), AnAction),
      RuleObj(Str("C"), Num(50), CondList(<<>>), Action(Str("REJECT"), Str("c"))),
      RuleObj(Str("A"), Num(90), CondList(<<>>), Action(Str("REVIEW"), Str("a"))),
      RuleObj(Str("S"), Str("high"), CondList(<<>>), AnAction),
      RuleObj(Absent, Null, CondList(<<>>), AnAction) }

ActionRules ==
    { RuleObj(Absent, Num(90), NoConditions, NoAction),
      RuleObj(Str("E"), Num(90), NoConditions, Action(Absent, Str("only a reason"))),
      RuleObj(Str("F"), Num(-10), NoConditions, Action(Str("AWARD"), Absent)),
      RuleObj(Str("G"), Num(90), NoConditions,
              [t |-> "null", decision |-> Absent, reason |-> Absent]) }

RuleUniverse == ConditionRules \cup PriorityRules \cup ActionRules

RuleLists == UNION { [1..n -> RuleUniverse] : n \in 0..MaxRules }

Inputs == [facts : FactsUniverse, rules : RuleLists]

CanonFacts ==
    { MkFacts(c, k, f, d) :
        c \in {Absent, Num(20), Num(24), Num(25), Num(33), Num(36), Num(37), Num(38)},
        k \in {Absent, Num(590), Num(600), Num(800), Num(850)},
        f \in {Absent, Num(40000), Num(50000), Num(80000), Num(80010),
               Num(120000), Num(120010)},
        d \in {Absent, Num(0), Num(10), Num(20), Num(30)} }

CanonInputs == [facts : CanonFacts, rules : {DEFAULT_RULES}]

(***************************************************************************)
(* A caller of evaluate_applicant: it calls with the inputs under          *)
(* observation (probe) or with other inputs, in any order, and keeps the   *)
(* outcome of its first call on probe.                                     *)
(***************************************************************************)
NoMemo == [result |-> NoResult, exc |-> "unset"]
Outcome == [result |-> result, exc |-> exc]

OtherInputs ==
    { [facts |-> MkFacts(Num(38), Absent, Absent, Num(30)),
       rules |-> << RuleObj(Str("C"), Num(50), CondList(<<>>),
                            Action(Str("REJECT"), Str("c"))),
                    RuleObj(Str("D"), Num(90),
                            CondList(<<Cond("disciplinary_actions", ">=", Num(20))>>),
                            AnAction) >>],
      [facts |-> MkFacts(Absent, Absent, Absent, Absent),
       rules |-> << RuleObj(Str("B"), Absent, CondList(<<>>), AnAction),
                    RuleObj(Str("A"), Num(50), CondList(<<NumberCond>>), AnAction) >>] }

Call ==
    /\ pc = "idle"
    /\ \E a \in {probe} \cup OtherInputs : Enter(a.facts, a.rules)
    /\ UNCHANGED <<probe, memo, mainVars>>

Return ==
    /\ pc \in {"done", "raised"}
    /\ pc' = "idle"
    /\ memo' = IF memo = NoMemo /\ facts = probe.facts /\ rules = probe.rules
               THEN Outcome ELSE memo
    /\ UNCHANGED <<facts, rules, i, matched_rules, best_rule, result, exc, probe,
                   mainVars>>

InitCore(ins) ==
    /\ probe \in ins
    /\ memo = NoMemo
    /\ facts = probe.facts
    /\ rules = probe.rules
    /\ pc = "idle"
    /\ i = 1
    /\ matched_rules = <<>>
    /\ best_rule = 0
    /\ result = NoResult
    /\ exc = "none"
    /\ rules_json = "[]"
    /\ applicant_facts = probe.facts
    /\ rules_valid = TRUE
    /\ button = FALSE
    /\ st_errors = <<>>
    /\ called = FALSE
    /\ shown = NoResult

Init == InitCore(Inputs)
InitCanon == InitCore(CanonInputs)

Next == Call \/ LoopIter \/ NoMatch \/ Resolve \/ Return

Spec == Init /\ [][Next]_vars
SpecCanon == InitCanon /\ [][Next]_vars

(***************************************************************************)
(* main(): lines 208-247 and the rendering of the result.  Streamlit runs  *)
(* the script from the top after every interaction; button is True only in *)
(* the run caused by pressing it.                                          *)
(***************************************************************************)
EmptyRule == RuleObj(Absent, Absent, NoConditions, NoAction)
NumberAsRule == [t |-> "num", name |-> Absent, priority |-> Absent,
                 conditions |-> NoConditions, action |-> NoAction]

RuleTexts == {"DEFAULT_RULES_JSON", "", "[{", "{}", "42", "null", "[]", "[{}]", "[1]"}

\* json.loads(rules_json) for the texts of RuleTexts: whether it returns
\* (ok; FALSE is JSONDecodeError), the type of the value and, for a list, the
\* value.
json_loads(text) ==
    CASE text = "DEFAULT_RULES_JSON" -> [ok |-> TRUE, root |-> "list", rules |-> DEFAULT_RULES]
      [] text = "[]"   -> [ok |-> TRUE, root |-> "list", rules |-> <<>>]
      [] text = "[{}]" -> [ok |-> TRUE, root |-> "list", rules |-> <<EmptyRule>>]
      [] text = "[1]"  -> [ok |-> TRUE, root |-> "list", rules |-> <<NumberAsRule>>]
      [] text = "{}"   -> [ok |-> TRUE, root |-> "dict", rules |-> <<>>]
      [] text = "42"   -> [ok |-> TRUE, root |-> "num", rules |-> <<>>]
      [] text = "null" -> [ok |-> TRUE, root |-> "null", rules |-> <<>>]
      [] OTHER         -> [ok |-> FALSE, root |-> "none", rules |-> <<>>]

\* lines 208-215
MainFacts(cgpa, income, co, disc) ==
    [k \in FieldNames \cup {"community_service_hours", "current_semester"} |->
        CASE k = "cgpa" -> cgpa
          [] k = "family_income" -> income
          [] k = "co_curricular_score" -> co
          [] k = "community_service_hours" -> Num(200)
          [] k = "current_semester" -> Num(30)
          [] k = "disciplinary_actions" -> disc]

WidgetFacts ==
    { MainFacts(c, f, k, d) :
        c \in {Num(20), Num(35), Num(38)}, f \in {Num(30000), Num(50000)},
        k \in {Num(700), Num(850)}, d \in {Num(0), Num(30)} }

\* lines 230-239: (rules_valid, the st.error messages)
ParseStatus(text) ==
    LET p == json_loads(text)
    IN  IF ~p.ok THEN [valid |-> FALSE, errors |-> <<"Invalid JSON in rule editor">>]
        ELSE IF p.root # "list"
        THEN [valid |-> FALSE,
              errors |-> <<"The root JSON element must be a list of rules.">>]
        ELSE [valid |-> TRUE, errors |-> <<>>]

\* Faulty variant of MayEvaluate: the press alone decides.
MayEvaluateUnchecked(pressed, valid, text) == pressed

\* line 244: the branch that calls evaluate_applicant is taken
MayEvaluate(pressed, valid, text) ==
    pressed /\ valid /\ json_loads(text).root # "null"

\* One run of the script with the widgets holding text and f.
ScriptRun(text, f, pressed) ==
    LET st == ParseStatus(text)
    IN  /\ rules_json' = text
        /\ applicant_facts' = f
        /\ rules_valid' = st.valid
        /\ button' = pressed
        /\ shown' = NoResult
        /\ IF MayEvaluate(pressed, st.valid, text)
           THEN /\ called' = TRUE
                /\ st_errors' = st.errors
                /\ Enter(f, json_loads(text).rules)
           ELSE /\ called' = FALSE
                /\ st_errors' =
                     IF pressed
                     THEN Append(st.errors,
                            "Cannot evaluate: rules are invalid. Please fix the JSON.")
                     ELSE st.errors
                /\ pc' = "idle"
                /\ UNCHANGED <<facts, rules, i, matched_rules, best_rule, result, exc>>
        /\ UNCHANGED <<probe, memo>>

Interactive == pc \in {"idle", "raised"}

EditRules ==
    /\ Interactive
    /\ \E text \in RuleTexts \ {rules_json} : ScriptRun(text, applicant_facts, FALSE)

EditFacts ==
    /\ Interactive
    /\ \E f \in WidgetFacts \ {applicant_facts} : ScriptRun(rules_json, f, FALSE)

PressButton ==
    /\ Interactive
    /\ ScriptRun(rules_json, applicant_facts, TRUE)

\* lines 249-275
Render ==
    /\ pc = "done"
    /\ called
    /\ shown' = result
    /\ pc' = "idle"
    /\ UNCHANGED <<facts, rules, i, matched_rules, best_rule, result, exc, probe, memo,
                   rules_json, applicant_facts, rules_valid, button, st_errors,
                   called>>

InitMain ==
    /\ rules_json = "DEFAULT_RULES_JSON"
    /\ applicant_facts = MainFacts(Num(35), Num(50000), Num(700), Num(0))
    /\ rules_valid = TRUE
    /\ button = FALSE
    /\ st_errors = <<>>
    /\ called = FALSE
    /\ shown = NoResult
    /\ facts = applicant_facts
    /\ rules = <<>>
    /\ pc = "idle"
    /\ i = 1
    /\ matched_rules = <<>>
    /\ best_rule = 0
    /\ result = NoResult
    /\ exc = "none"
    /\ probe = [facts |-> applicant_facts, rules |-> <<>>]
    /\ memo = NoMemo

NextMain ==
    EditRules \/ EditFacts \/ PressButton \/ LoopIter \/ NoMatch \/ Resolve \/ Render

SpecMain == InitMain /\ [][NextMain]_vars

(***************************************************************************)
(* What the specification says of rules and facts, stated without the      *)
(* engine's code                                                           *)
(***************************************************************************)
Finished == pc \in {"done", "raised"}
RuleIdx == 1..Len(rules)

\* A condition holds: a three-element triple whose field is a key of the
\* facts, whose operator is one of the five and whose comparison is true.
CondHolds(cond, f) ==
    /\ cond.t = "list"
    /\ Len(cond.items) = 3
    /\ cond.items[1].t = "str" /\ cond.items[1].s \in DOMAIN f
    /\ cond.items[2].t = "str"
    /\ cond.items[2].s \in {">=", "<=", ">", "<", "=="}
    /\ ApplyOp(cond.items[2].s, f[cond.items[1].s], cond.items[3]) = "true"

\* Every condition of the rule holds; an empty or absent sequence holds.
AllConditionsHold(rule, f) ==
    \/ rule.conditions.t = "absent"
    \/ /\ rule.conditions.t = "list"
       /\ \A k \in 1..Len(rule.conditions.items) :
              CondHolds(rule.conditions.items[k], f)

\* The positions of the rules that rule_matches accepts.
MatchedSet == {k \in RuleIdx : rule_matches(rules[k], facts) = "true"}

RECURSIVE NamesFrom(_)
NamesFrom(k) ==
    IF k > Len(rules) THEN <<>>
    ELSE IF k \in MatchedSet THEN <<RuleName(rules[k])>> \o NamesFrom(k + 1)
    ELSE NamesFrom(k + 1)

Range(q) == {q[k] : k \in 1..Len(q)}

\* a's priority is at least b's, in Python's order
PriorityGe(a, b) == ApplyOp(">=", PriorityKey(a), PriorityKey(b)) = "true"
PriorityGt(a, b) == ApplyOp(">", PriorityKey(a), PriorityKey(b)) = "true"

(***************************************************************************)
(* The claims                                                              *)
(***************************************************************************)

\* C1: whenever no rule's conditions all hold against the facts (the empty
\* rule list included), the call returns decision "REVIEW", an empty
\* matched_rules, selected_rule None and the one fixed reason.
C1_NoMatchReturnsReview ==
    (Finished /\ \A k \in RuleIdx : ~AllConditionsHold(rules[k], facts))
        => /\ pc = "done"
           /\ result.decision = Str("REVIEW")
           /\ result.matched_rules = <<>>
           /\ result.selected_rule = Null
           /\ result.reason =
                Str("No rules matched for this applicant. Rules may need review.")

\* C2: when the call returns and some rule matched, the selected rule is a
\* matched rule, its priority (0 when it has none) is at least that of every
\* other matched rule, and every matched rule before it in the list has a
\* strictly smaller priority (of several maxima the earliest is selected).
C2_HighestPriorityEarliest ==
    (pc = "done" /\ MatchedSet # {})
        => /\ best_rule \in MatchedSet
           /\ result.selected_rule = RuleName(rules[best_rule])
           /\ \A m \in MatchedSet \ {best_rule} :
                  /\ PriorityGe(rules[best_rule], rules[m])
                  /\ m < best_rule => PriorityGt(rules[best_rule], rules[m])

C2_Witness ==
    /\ pc = "done"
    /\ \E m \in MatchedSet :
          /\ best_rule < m
          /\ PyEq(PriorityKey(rules[m]), PriorityKey(rules[best_rule]))
          /\ RuleName(rules[m]) # RuleName(rules[best_rule])

\* C3: when the call returns, matched_rules is the sequence of the names of
\* the rules that rule_matches accepts, one entry per rule, in rule-list
\* order.
C3_MatchedNamesInListOrder ==
    pc = "done" => result.matched_rules = NamesFrom(1)

C3_Witness ==
    /\ pc = "done"
    /\ Len(result.matched_rules) = 2
    /\ result.matched_rules[1] # result.matched_rules[2]
    /\ PriorityGt(rules[2], rules[1])

\* The facts of C4.
C4Facts == MkFacts(Num(38), Num(850), Num(50000), Num(0))
C4Case == Finished /\ facts = C4Facts /\ rules = DEFAULT_RULES

\* C4 as stated: the facts cgpa 3.8, co_curricular_score 85, family_income
\* 5000, disciplinary_actions 0 against the canonical rules give
\* matched_rules holding "Top merit candidate" and no other name, that rule
\* selected and decision AWARD_FULL.
C4_OnlyTopMerit ==
    C4Case
        => /\ pc = "done"
           /\ result.matched_rules = <<Str("Top merit candidate")>>
           /\ result.selected_rule = Str("Top merit candidate")
           /\ result.decision = Str("AWARD_FULL")

\* C4 as amended: the same evaluation gives matched_rules = "Top merit
\* candidate" followed by "Good candidate - partial scholarship", selects
\* "Top merit candidate" and decides AWARD_FULL.
C4_TopMeritAndPartial ==
    C4Case
        => /\ pc = "done"
           /\ result.matched_rules =
                <<Str("Top merit candidate"),
                  Str("Good candidate - partial scholarship")>>
           /\ result.selected_rule = Str("Top merit candidate")
           /\ result.decision = Str("AWARD_FULL")

C4_Witness == C4Case /\ pc = "done" /\ Len(result.matched_rules) = 2

\* C5: for facts with cgpa 2.0 and disciplinary_actions 3, whatever the other
\* facts, the canonical rules match both "Low CGPA - not eligible" and
\* "Serious disciplinary record", and the call selects the former with
\* decision REJECT.
C5_LowCgpaBeatsDisciplinary ==
    ( /\ Finished
      /\ rules = DEFAULT_RULES
      /\ {"cgpa", "disciplinary_actions"} \subseteq DOMAIN facts
      /\ facts["cgpa"] = Num(20)
      /\ facts["disciplinary_actions"] = Num(30) )
        => /\ pc = "done"
           /\ Str("Low CGPA - not eligible") \in Range(result.matched_rules)
           /\ Str("Serious disciplinary record") \in Range(result.matched_rules)
           /\ result.selected_rule = Str("Low CGPA - not eligible")
           /\ result.decision = Str("REJECT")

C5_Witness ==
    /\ pc = "done"
    /\ rules = DEFAULT_RULES
    /\ DOMAIN facts = FieldNames
    /\ facts["cgpa"] = Num(20)
    /\ facts["disciplinary_actions"] = Num(30)
    /\ facts["family_income"] = Num(40000)
    /\ result.selected_rule = Str("Low CGPA - not eligible")

\* C6: every call of rule_matches made by the loop returns without raising,
\* and returns true exactly when every condition of the rule holds (always,
\* for an empty or absent condition sequence).
C6_RuleMatchesIffAllHold ==
    /\ (pc = "raised") => i > Len(rules)
    /\ (pc \in {"loop", "done"})
          => \A k \in 1..(i - 1) :
                 (k \in Range(matched_rules)) <=> AllConditionsHold(rules[k], facts)

\* C7: with a list of rule objects, the call always returns: no exception
\* leaves evaluate_applicant.
C7_NoErrorFromRuleContent ==
    (\A k \in RuleIdx : rules[k].t = "dict") => pc # "raised"

\* C8: a call leaves facts and rules as they are, and a completed call on
\* given inputs has the outcome of the first call on them, whatever calls
\* were made in between.
C8_SameInputsSameOutcome ==
    /\ [][pc = "loop" => (facts' = facts /\ rules' = rules)]_vars
    /\ []( (Finished /\ memo # NoMemo
              /\ facts = probe.facts /\ rules = probe.rules)
            => Outcome = memo )

C8_Witness ==
    /\ pc = "done"
    /\ memo # NoMemo
    /\ facts = probe.facts /\ rules = probe.rules
    /\ Len(result.matched_rules) = 2

\* C9: when the call returns and some rule matched, decision and reason are
\* those of the selected rule's own action ("REVIEW" without action or
\* decision, "" without reason), selected_rule is that rule's name
\* ("Unnamed rule" without name) and is an element of matched_rules.
C9_ResultFromSelectedRule ==
    (pc = "done" /\ MatchedSet # {})
        => LET best == rules[best_rule]
           IN  /\ result.decision =
                    IF best.action.t = "absent" \/ best.action.decision = Absent
                    THEN Str("REVIEW") ELSE best.action.decision
               /\ result.reason =
                    IF best.action.t = "absent" \/ best.action.reason = Absent
                    THEN Str("") ELSE best.action.reason
               /\ result.selected_rule =
                    IF best.name = Absent THEN Str("Unnamed rule") ELSE best.name
               /\ result.selected_rule \in Range(result.matched_rules)

C9_Witness ==
    /\ pc = "done"
    /\ Len(matched_rules) = 2
    /\ best_rule = matched_rules[2]
    /\ rules[matched_rules[1]].action.decision # result.decision
    /\ result.decision = Str("REVIEW")
    /\ rules[best_rule].action.t = "absent"

\* C10: in main, evaluate_applicant is called only in a run started by the
\* button and only when the rule text parsed and its root is a list; a press
\* with text that is invalid or not a list reports an error, calls nothing
\* and renders no decision result.
C10_EvaluateOnlyOnValidPress ==
    LET p == json_loads(rules_json)
        isList == p.ok /\ p.root = "list"
    IN  /\ called => (button /\ isList)
        /\ (pc \in {"loop", "done"} \/ shown # NoResult) => called
        /\ (button /\ ~isList)
              => (st_errors # <<>> /\ ~called /\ shown = NoResult /\ pc = "idle")

C10_Witness ==
    /\ button
    /\ json_loads(rules_json).ok
    /\ json_loads(rules_json).root = "dict"
    /\ Len(st_errors) = 2
    /\ ~called

====
